---- MODULE Spec2Model ----
(***************************************************************************)
(* Model of the N-ary tree container of Tree.h (class Tree<T>, class       *)
(* Node<T>) instantiated with the payload type StoryNode of StoryNode.h,   *)
(* as utils.cpp and main.cpp use it.                                       *)
(*                                                                         *)
(* A Tree object is a record                                               *)
(*    [root, nodes, nodeMap, nextID]                                       *)
(* where nodes is the heap: a function from the addresses of the Node      *)
(* objects that are allocated to their fields [value, parent, children,    *)
(* ID]; root and the entries of children are owning pointers (addresses),  *)
(* parent and the values of nodeMap are raw pointers.                      *)
(*                                                                         *)
(* Text (std::string) is a sequence of one-character strings. A size_t is  *)
(* kept modulo 2^64 and written as its signed residue: -1 is npos, and a   *)
(* negative number k stands for 2^64 + k.                                  *)
(***************************************************************************)
EXTENDS Integers, Sequences, FiniteSets, TLC

\* tree: the Tree object the callers operate on; last: the call observed
\* last; story: the text loadStoryline read and hands to deserialize
VARIABLES tree, last, story

vars == <<tree, last, story>>

(***************************************************************************)
(* Bounds of the model.                                                    *)
(***************************************************************************)
\* ids a tree may issue in one behaviour (cap on nextID)
MaxID == 4
\* lines of a document handed to deserialize
MaxLines == 4
\* largest int a read of the top of an empty std::stack<int> may produce
MaxGarbage == 1
\* an id far above every id issued, which callers may still pass
FarID == 999
\* nodes of the trees handed to linearize and serialize
MaxNodes == 6
\* characters of each string of the value T() of a payload type
MaxText == 1

(***************************************************************************)
(* std::string                                                             *)
(***************************************************************************)
Npos == -1

Null == 0

\* the value getRootID reports for a tree without a root
NoRootID == -1

Min(S) == CHOOSE x \in S : \A y \in S : x <= y

\* an unsigned comparison a > b of two size_t, b a real length
Above(a, b) == a < 0 \/ a > b

\* std::string::find(pat, pos): index (from 0) of the first occurrence at or
\* after pos, npos if there is none or pos is beyond the end
Find(s, pat, pos) ==
    IF Above(pos, Len(s)) THEN Npos
    ELSE LET hits == {i \in pos..(Len(s) - Len(pat)) :
                          SubSeq(s, i + 1, i + Len(pat)) = pat}
         IN  IF hits = {} THEN Npos ELSE Min(hits)

\* std::string::substr(pos, count): throws std::out_of_range if pos > size,
\* else the characters [pos, pos + min(count, size - pos))
Substr(s, pos, count) ==
    IF Above(pos, Len(s)) THEN [thrown |-> TRUE, str |-> <<>>]
    ELSE LET n == IF Above(count, Len(s) - pos) THEN Len(s) - pos ELSE count
         IN  [thrown |-> FALSE, str |-> SubSeq(s, pos + 1, pos + n)]

\* std::getline(is, buffer): the text up to the first '\n'; sets failbit when
\* no character at all could be extracted
Getline(text) ==
    LET nl == Find(text, <<"\n">>, 0)
    IN  IF nl = Npos
        THEN [line |-> text, rest |-> <<>>, fail |-> text = <<>>]
        ELSE [line |-> SubSeq(text, 1, nl), rest |-> SubSeq(text, nl + 2, Len(text)),
              fail |-> FALSE]

Digit(d) == <<"0", "1", "2", "3", "4", "5", "6", "7", "8", "9">>[d + 1]

\* operator<<(ostream, int) for a non-negative int
RECURSIVE Decimal(_)
Decimal(n) == IF n < 10 THEN <<Digit(n)>> ELSE Decimal(n \div 10) \o <<Digit(n % 10)>>

(***************************************************************************)
(* StoryNode                                                               *)
(***************************************************************************)
Quote == <<"\"">>

ActionKey == <<"a", "c", "t", "i", "o", "n", ":", " ", "\"">>

OutcomeKey == <<"o", "u", "t", "c", "o", "m", "e", ":", " ", "\"">>

\* StoryNode(): both strings default to one blank
DefaultT == [action |-> <<" ">>, outcome |-> <<" ">>]

\* operator<<(ostream, StoryNode)
Encode(sn) ==
    ActionKey \o sn.action \o <<"\"", " ">> \o OutcomeKey \o sn.outcome \o Quote

\* the trim of operator>>: it drops one character when the line read
\* is not empty and ends with a blank
TrimBack(line) ==
    IF line # <<>> /\ line[Len(line)] = " " THEN SubSeq(line, 1, Len(line) - 1) ELSE line

\* the three statements operator>> runs for each member: find the key in
\* buffer from index from, find the double quote that follows the skip
\* characters of the key, and take the text between the two with substr.
\* end is the index of that quote, sub what substr gives.
Member(buffer, key, skip, from) ==
    LET pos == Find(buffer, key, from)
        end == Find(buffer, Quote, pos + skip)
    IN  [end |-> end, sub |-> Substr(buffer, pos + skip, end - (pos + skip))]

\* the StoryNode operator>> leaves behind once both members were read
Extracted(fail, act, out) ==
    IF act.thrown \/ out.thrown
    THEN [thrown |-> TRUE, fail |-> fail, value |-> DefaultT]
    ELSE [thrown |-> FALSE, fail |-> fail,
          value |-> [action |-> act.str, outcome |-> out.str]]

\* operator>>(istream, StoryNode) on a stream holding text: thrown when a
\* substr throws std::out_of_range, fail when the stream ends up failed
Extract(text) ==
    LET got     == Getline(text)
        buffer  == TrimBack(got.line)
        action  == Member(buffer, ActionKey, 9, 0)
        outcome == Member(buffer, OutcomeKey, 10, action.end)
    IN  Extracted(got.fail, action.sub, outcome.sub)

\* StoryNode::operator==
EqualT(a, b) == a.action = b.action /\ a.outcome = b.outcome

\* payloads the callers store in a tree: a plain one and one whose action
\* holds a double quote (both encode to a single line of text)
Values ==
    { [action |-> <<"a">>, outcome |-> <<"b">>],
      [action |-> <<"\"">>, outcome |-> <<"b">>] }

\* payloads the callers store at the root: those, and one whose outcome holds
\* a line break (it encodes to two lines of text)
RootValues == Values \cup { [action |-> <<"b">>, outcome |-> <<"\n">>] }

(***************************************************************************)
(* Node<T> and Tree<T>: state and private helpers                          *)
(***************************************************************************)
\* the value of Node::ID between the constructor and assignIDs (not initialised)
NoID == -2

NoEntries == <<>>

\* a map (std::unordered_map, the heap) is a function; these build it
\* entry by entry
RECURSIVE MapOnly(_, _)
MapOnly(m, keys) ==
    IF keys = {} THEN NoEntries
    ELSE LET k == Min(keys) IN (k :> m[k]) @@ MapOnly(m, keys \ {k})

MapPut(m, k, v) == (k :> v) @@ MapOnly(m, DOMAIN m \ {k})

MapErase(m, k) == MapOnly(m, DOMAIN m \ {k})

\* Node(value, parent): children empty
NewNode(value, parent) ==
    [value |-> value, parent |-> parent, children |-> <<>>, ID |-> NoID]

\* operator new: the lowest address that is free
NewAddr(t) ==
    Min({a \in 1..(Cardinality(DOMAIN t.nodes) + 1) : a \notin DOMAIN t.nodes})

\* the members of a Tree whose id counter starts at 1
EmptyTreeFromOne == [root |-> Null, nodes |-> NoEntries, nodeMap |-> NoEntries, nextID |-> 1]

\* the members of a Tree before any constructor body ran: nextID = 0
EmptyTree == [root |-> Null, nodes |-> NoEntries, nodeMap |-> NoEntries, nextID |-> 0]

\* the Node objects a unique_ptr to h owns: h and, through children, below it
RECURSIVE Owned(_, _)
Owned(t, h) ==
    {h} \cup UNION {Owned(t, t.nodes[h].children[i]) :
                       i \in 1..Len(t.nodes[h].children)}

\* assignIDs that hands out the lowest id the index does not hold
assignIDsLowestFree(t, node) ==
    IF node = Null THEN t
    ELSE LET id == Min({i \in 0..t.nextID : i \notin DOMAIN t.nodeMap})
         IN  [t EXCEPT !.nodes[node].ID = id,
                       !.nodeMap = MapPut(@, id, node),
                       !.nextID = IF id = t.nextID THEN @ + 1 ELSE @]

RECURSIVE assignIDs(_, _)
RECURSIVE assignIDsEach(_, _, _)
assignIDs(t, node) ==
    IF node = Null THEN t
    ELSE LET t1 == [t EXCEPT !.nodes[node].ID = t.nextID,
                             !.nodeMap = MapPut(@, t.nextID, node),
                             !.nextID = t.nextID + 1]
         IN  assignIDsEach(t1, t1.nodes[node].children, 1)

\* the loop of assignIDs over node->children
assignIDsEach(t, kids, i) ==
    IF i > Len(kids) THEN t ELSE assignIDsEach(assignIDs(t, kids[i]), kids, i + 1)

\* Tree::getRootID
getRootID(t) == IF t.root # Null THEN t.nodes[t.root].ID ELSE NoRootID

\* Tree::setRoot past its check: allocate the node, install it, number it
installRoot(t, value) ==
    LET rootNode == NewAddr(t)
        t1 == [t EXCEPT !.nodes = MapPut(@, rootNode, NewNode(value, Null)),
                        !.root = rootNode]
        t2 == assignIDs(t1, t1.root)
    IN  [tree |-> t2, ret |-> t2.nodes[t2.root].ID, err |-> ""]

\* setRoot without its check of root
setRootUnchecked(t, value) == installRoot(t, value)

\* Tree::setRoot
setRoot(t, value) ==
    IF t.root # Null
    THEN [tree |-> t, ret |-> NoID, err |-> "AlreadyHasRoot"]
    ELSE installRoot(t, value)

\* attachChild that puts the child in front of the parent's children
attachChildFront(t, parentID, value) ==
    LET parentNode == t.nodeMap[parentID]
        child == NewAddr(t)
        t1 == [t EXCEPT !.nodes = MapPut(@, child, NewNode(value, parentNode))]
        t2 == [t1 EXCEPT !.nodes[parentNode].children = <<child>> \o @]
        t3 == assignIDs(t2, child)
    IN  [tree |-> t3, ret |-> t3.nodes[child].ID, err |-> ""]

\* attachChild that constructs the child without its parent
attachChildNoParent(t, parentID, value) ==
    LET parentNode == t.nodeMap[parentID]
        child == NewAddr(t)
        t1 == [t EXCEPT !.nodes = MapPut(@, child, NewNode(value, Null))]
        t2 == [t1 EXCEPT !.nodes[parentNode].children = Append(@, child)]
        t3 == assignIDs(t2, child)
    IN  [tree |-> t3, ret |-> t3.nodes[child].ID, err |-> ""]

\* Tree::appendNode past its check: allocate the child, push it to the back
\* of the parent's children, number it
attachChild(t, parentID, value) ==
    LET parentNode == t.nodeMap[parentID]
        child == NewAddr(t)
        t1 == [t EXCEPT !.nodes = MapPut(@, child, NewNode(value, parentNode))]
        t2 == [t1 EXCEPT !.nodes[parentNode].children = Append(@, child)]
        back == t2.nodes[parentNode].children[Len(t2.nodes[parentNode].children)]
        t3 == assignIDs(t2, back)
    IN  [tree |-> t3, ret |-> t3.nodes[back].ID, err |-> ""]

\* appendNode that draws the id before it looks the parent up
appendNodeEagerID(t, parentID, value) ==
    IF parentID \notin DOMAIN t.nodeMap
    THEN [tree |-> [t EXCEPT !.nextID = @ + 1], ret |-> NoID, err |-> "NodeNotFound"]
    ELSE attachChild(t, parentID, value)

\* Tree::appendNode
appendNode(t, parentID, value) ==
    IF parentID \notin DOMAIN t.nodeMap
    THEN [tree |-> t, ret |-> NoID, err |-> "NodeNotFound"]
    ELSE attachChild(t, parentID, value)

\* cleanupSubtree that erases the entry of node alone
cleanupSubtreeShallow(t, node) == [t EXCEPT !.nodeMap = MapErase(@, t.nodes[node].ID)]

\* the lambda cleanupSubtree of removeNode: erase the nodeMap entries of node
\* and of everything below it
RECURSIVE cleanupSubtree(_, _)
RECURSIVE cleanupEach(_, _, _)
cleanupSubtree(t, node) ==
    LET t1 == cleanupEach(t, t.nodes[node].children, 1)
    IN  [t1 EXCEPT !.nodeMap = MapErase(@, t1.nodes[node].ID)]

\* the loop of cleanupSubtree that stops after the first child
cleanupEachFirst(t, kids, i) ==
    IF i > Len(kids) \/ i > 1 THEN t ELSE cleanupSubtree(t, kids[i])

\* the loop of cleanupSubtree over node->children
cleanupEach(t, kids, i) ==
    IF i > Len(kids) THEN t ELSE cleanupEach(cleanupSubtree(t, kids[i]), kids, i + 1)

\* eraseChild that compares the values of the nodes, not the pointers
eraseChildByValue(siblings, t, nodeToRemove) ==
    SelectSeq(siblings, LAMBDA child : t.nodes[child].value # t.nodes[nodeToRemove].value)

\* siblings.erase(remove_if(... child.get() == nodeToRemove ...)): the other
\* children, in their order
eraseChild(siblings, t, nodeToRemove) ==
    SelectSeq(siblings, LAMBDA child : child # nodeToRemove)

\* Tree::removeNode past its checks: erase the index entries of the subtree,
\* detach the node; erasing the unique_ptr releases the node and all it owns
detachSubtree(t, nodeID) ==
    LET nodeToRemove == t.nodeMap[nodeID]
        t1 == cleanupSubtree(t, nodeToRemove)
        parent == t1.nodes[nodeToRemove].parent
        kept == eraseChild(t1.nodes[parent].children, t1, nodeToRemove)
        released == UNION {Owned(t1, c) :
                             c \in {t1.nodes[parent].children[i] :
                                       i \in 1..Len(t1.nodes[parent].children)}
                                   \ {kept[i] : i \in 1..Len(kept)}}
        t2 == IF parent # Null
              THEN [t1 EXCEPT !.nodes =
                       MapOnly([t1.nodes EXCEPT ![parent].children = kept],
                               DOMAIN t1.nodes \ released)]
              ELSE t1
    IN  [tree |-> t2, ret |-> NoID, err |-> ""]

\* removeNode without its check for the root
removeNodeUnchecked(t, nodeID) ==
    IF nodeID \notin DOMAIN t.nodeMap
    THEN [tree |-> t, ret |-> NoID, err |-> "NodeNotFound"]
    ELSE detachSubtree(t, nodeID)

\* Tree::removeNode
removeNode(t, nodeID) ==
    IF nodeID = getRootID(t)
    THEN [tree |-> t, ret |-> NoID, err |-> "CannotRemoveRoot"]
    ELSE IF nodeID \notin DOMAIN t.nodeMap
    THEN [tree |-> t, ret |-> NoID, err |-> "NodeNotFound"]
    ELSE detachSubtree(t, nodeID)

\* Tree::getChildrenIDs
getChildrenIDs(t, nodeID) ==
    IF nodeID \notin DOMAIN t.nodeMap
    THEN [ret |-> <<>>, err |-> "NodeNotFound"]
    ELSE LET kids == t.nodes[t.nodeMap[nodeID]].children
         IN  [ret |-> [i \in 1..Len(kids) |-> t.nodes[kids[i]].ID], err |-> ""]

\* getValue that hands out a default value for an id it does not find
getValueOrDefault(t, nodeID) ==
    IF nodeID \notin DOMAIN t.nodeMap
    THEN [ret |-> DefaultT, err |-> ""]
    ELSE [ret |-> t.nodes[t.nodeMap[nodeID]].value, err |-> ""]

\* Tree::getValue
getValue(t, nodeID) ==
    IF nodeID \notin DOMAIN t.nodeMap
    THEN [ret |-> DefaultT, err |-> "NodeNotFound"]
    ELSE [ret |-> t.nodes[t.nodeMap[nodeID]].value, err |-> ""]

\* Tree::operator[]
subscript(t, nodeID) ==
    IF nodeID \notin DOMAIN t.nodeMap
    THEN [ret |-> DefaultT, err |-> "NodeNotFound"]
    ELSE [ret |-> t.nodes[t.nodeMap[nodeID]].value, err |-> ""]

(***************************************************************************)
(* Linearization and the text format                                       *)
(***************************************************************************)
\* std::optional<T>: a sequence of no or one value
None == <<>>

Some(v) == <<v>>

\* std::stack: the top is the head of the sequence
Push(stack, x) == <<x>> \o stack

\* the loop of linearize run from begin to end: the last child ends on top
PushForward(stack, kids, i) == [k \in 1..i |-> kids[i + 1 - k]] \o stack

\* the loop of linearize that pushes current->children from rbegin to rend
RECURSIVE PushReversed(_, _, _)
PushReversed(stack, kids, i) ==
    IF i < 1 THEN stack ELSE PushReversed(Push(stack, kids[i]), kids, i - 1)

\* the while loop of linearize with the marker pushed after the children, so
\* that it is popped before them
RECURSIVE linearizeLoopMarkerOnTop(_, _, _)
linearizeLoopMarkerOnTop(t, stack, linearized) ==
    IF stack = <<>> THEN linearized
    ELSE IF Head(stack) # Null
    THEN linearizeLoopMarkerOnTop(t,
             Push(PushReversed(Tail(stack), t.nodes[Head(stack)].children,
                               Len(t.nodes[Head(stack)].children)), Null),
             Append(linearized, Some(t.nodes[Head(stack)].value)))
    ELSE linearizeLoopMarkerOnTop(t, Tail(stack), Append(linearized, None))

\* the while loop of linearize
RECURSIVE linearizeLoop(_, _, _)
linearizeLoop(t, stack, linearized) ==
    IF stack = <<>> THEN linearized
    ELSE LET current == Head(stack)
             popped == Tail(stack)
         IN  IF current # Null
             THEN linearizeLoop(t,
                      PushReversed(Push(popped, Null), t.nodes[current].children,
                                   Len(t.nodes[current].children)),
                      Append(linearized, Some(t.nodes[current].value)))
             ELSE linearizeLoop(t, popped, Append(linearized, None))

\* Tree::linearize
linearize(t) ==
    linearizeLoop(t, IF t.root # Null THEN Push(<<>>, t.root) ELSE <<>>, <<>>)

EndMarker == <<"[", "X", "]">>

\* the for loop of serialize
RECURSIVE serializeLoop(_, _, _, _)
serializeLoop(linearized, i, nodeCount, serialized) ==
    IF i > Len(linearized) THEN serialized
    ELSE IF linearized[i] # None
    THEN serializeLoop(linearized, i + 1, nodeCount + 1,
             serialized \o <<"[">> \o Decimal(nodeCount) \o <<"]", ":", " ">>
                        \o Encode(linearized[i][1]) \o <<"\n">>)
    ELSE serializeLoop(linearized, i + 1, nodeCount, serialized \o EndMarker \o <<"\n">>)

\* Tree::serialize
serialize(t) == serializeLoop(linearize(t), 1, 0, <<>>)

\* Tree::T_compatible_check for a payload type whose T() is testT: TRUE when
\* it returns, FALSE when it throws
T_compatible_checkOf(testT) ==
    LET testT2 == Extract(Encode(testT))
    IN  ~testT2.thrown /\ EqualT(testT, testT2.value)

\* Tree::T_compatible_check of Tree<StoryNode>
T_compatible_check == T_compatible_checkOf(DefaultT)

\* Tree::Tree() for a payload type whose T() is testT
TreeCtorOf(testT) ==
    IF T_compatible_checkOf(testT) THEN [tree |-> EmptyTree, err |-> ""]
    ELSE [tree |-> EmptyTree, err |-> "IncompatiblePayloadType"]

\* Tree::Tree()
TreeCtor ==
    IF T_compatible_check THEN [tree |-> EmptyTree, err |-> ""]
    ELSE [tree |-> EmptyTree, err |-> "IncompatiblePayloadType"]

\* Tree(value) that goes to setRoot without the check
TreeCtorValueUnchecked(testT, value) ==
    [tree |-> setRoot(EmptyTree, value).tree, err |-> setRoot(EmptyTree, value).err]

\* Tree::Tree(const T&) and Tree::Tree(T&&) for a payload type whose T() is
\* testT
TreeCtorValue(testT, value) ==
    IF T_compatible_checkOf(testT)
    THEN [tree |-> setRoot(EmptyTree, value).tree, err |-> setRoot(EmptyTree, value).err]
    ELSE [tree |-> EmptyTree, err |-> "IncompatiblePayloadType"]

\* what a read of parentIDs.top() on an empty stack may produce
Garbage == (-1)..MaxGarbage

\* one iteration of the loop of delinearize from the state s = [tree,
\* parentIDs, err]: the set of states it may end in. err is the exception that
\* left delinearize ("Crash": the process died on the read of an empty stack).
delinearizeStep(s, optValue) ==
    IF s.err # "" THEN {s}
    ELSE IF optValue # None
    THEN IF getRootID(s.tree) = NoRootID
         THEN LET r == setRoot(s.tree, optValue[1])
              IN  {[tree |-> r.tree, parentIDs |-> Push(s.parentIDs, getRootID(r.tree)),
                    err |-> r.err]}
         ELSE LET tops == IF s.parentIDs # <<>> THEN {Head(s.parentIDs)} ELSE Garbage
                  grown == {appendNode(s.tree, top, optValue[1]) : top \in tops}
              IN  {[tree |-> r.tree,
                    parentIDs |-> IF r.err = "" THEN Push(s.parentIDs, r.ret)
                                  ELSE s.parentIDs,
                    err |-> r.err] : r \in grown}
                  \cup (IF s.parentIDs = <<>>
                        THEN {[tree |-> s.tree, parentIDs |-> s.parentIDs, err |-> "Crash"]}
                        ELSE {})
    ELSE IF s.parentIDs # <<>>
    THEN {[s EXCEPT !.parentIDs = Tail(@)]}
    ELSE {s}

RECURSIVE delinearizeLoop(_, _, _)
delinearizeLoop(states, linearized, i) ==
    IF i > Len(linearized) THEN states
    ELSE delinearizeLoop(UNION {delinearizeStep(s, linearized[i]) : s \in states},
                         linearized, i + 1)

\* Tree::delinearize: the set of results [tree, err] it may have
delinearize(linearized) ==
    LET made == TreeCtor
        ends == delinearizeLoop({[tree |-> made.tree, parentIDs |-> <<>>, err |-> made.err]},
                                linearized, 1)
    IN  {[tree |-> IF s.err = "" THEN s.tree ELSE EmptyTree, err |-> s.err] : s \in ends}

\* the shape test that looks for the opening bracket alone
IsValueLineByBracket(line) == Find(line, <<"[">>, 0) = 0

\* the shape test of deserialize for a value line
IsValueLine(line) ==
    Find(line, <<"[">>, 0) = 0 /\ Find(line, <<"]", ":", " ">>, 0) # Npos

\* the try block of deserialize: the entries collected and the exception
\* caught ("" when none), which is written to std::cerr
RECURSIVE parseLoop(_, _, _, _)
parseLoop(text, linearized, nodeCount, eocTokenCount) ==
    LET got == Getline(text)
        line == got.line
    IN  IF got.fail
        THEN [linearized |-> linearized,
              logged |-> IF nodeCount # eocTokenCount THEN "UnbalancedMarkers" ELSE ""]
        ELSE IF line = EndMarker
        THEN IF eocTokenCount + 1 > nodeCount
             THEN [linearized |-> Append(linearized, None), logged |-> "UnbalancedMarkers"]
             ELSE parseLoop(got.rest, Append(linearized, None), nodeCount,
                            eocTokenCount + 1)
        ELSE IF IsValueLine(line)
        THEN LET valuePart == Substr(line, Find(line, <<"]", ":", " ">>, 0) + 3, Npos).str
                 value == Extract(valuePart)
             IN  IF value.thrown
                 THEN [linearized |-> linearized, logged |-> "out_of_range"]
                 ELSE IF ~value.fail
                 THEN parseLoop(got.rest, Append(linearized, Some(value.value)),
                                nodeCount + 1, eocTokenCount)
                 ELSE [linearized |-> linearized, logged |-> "UnparsablePayload"]
        ELSE [linearized |-> linearized, logged |-> "MalformedLine"]

\* Tree::deserialize: the set of results [tree, err, logged] it may have; err
\* is the exception that reaches the caller ("" when a tree is returned)
deserialize(serialized) ==
    LET parsed == parseLoop(serialized, <<>>, 0, 0)
    IN  {[tree |-> r.tree, err |-> r.err, logged |-> parsed.logged] :
            r \in delinearize(parsed.linearized)}

(***************************************************************************)
(* The callers: operations on one tree, and documents handed to            *)
(* deserialize                                                             *)
(***************************************************************************)
\* ids a caller passes: issued ones, negative ones and one never issued
IdArgs == ((-2)..(MaxID - 1)) \cup {FarID}

PlainValue == [action |-> <<"a">>, outcome |-> <<"b">>]

OtherValue == [action |-> <<"c">>, outcome |-> <<>>]

\* a payload whose text holds the three characters that end the index of a
\* value line
CutValue == [action |-> <<"]", ":", " ">>, outcome |-> <<"b">>]

ValuePrefix == <<"[", "0", "]", ":", " ">>

\* lines a document is made of: the end marker, two value lines, a blank
\* line, an end marker followed by a blank, a value line whose payload is too
\* short for operator>>, one whose payload is no StoryNode text, an end
\* marker behind a blank, and a value line whose payload holds "]: "
LinePool ==
    << EndMarker,
       ValuePrefix \o Encode(PlainValue),
       ValuePrefix \o Encode(OtherValue),
       <<>>,
       EndMarker \o <<" ">>,
       ValuePrefix \o <<"A">>,
       ValuePrefix \o <<"1", "2", "3", "4", "5", "6", "7", "8", "9">>,
       <<" ">> \o EndMarker,
       ValuePrefix \o Encode(CutValue) >>

\* the document made of the lines picks[i..], each line ended by '\n' as
\* loadStoryline builds them
RECURSIVE DocOf(_, _)
DocOf(picks, i) ==
    IF i > Len(picks) THEN <<>>
    ELSE LinePool[picks[i]] \o <<"\n">> \o DocOf(picks, i + 1)

\* the call observed last: the tree it was made on (pre), its arguments, the
\* exception that reached the caller (err), the value returned (ret, out)
\* and the error written to std::cerr (logged)
Call(op, pre, id, value, doc, r) ==
    [op |-> op, pre |-> pre, id |-> id, value |-> value, doc |-> doc,
     err |-> r.err, ret |-> r.ret, out |-> r.out, logged |-> r.logged]

Init ==
    /\ tree = TreeCtor.tree
    /\ last = Call("Tree", EmptyTree, NoID, DefaultT, <<>>,
                   [err |-> TreeCtor.err, ret |-> NoID, out |-> EmptyTree, logged |-> ""])
    /\ story = <<>>

SetRoot(value) ==
    LET r == setRoot(tree, value)
    IN  /\ r.tree.nextID <= MaxID
        /\ tree' = r.tree
        /\ last' = Call("setRoot", tree, NoID, value, <<>>,
                        [err |-> r.err, ret |-> r.ret, out |-> EmptyTree, logged |-> ""])
        /\ UNCHANGED story

AppendNode(parentID, value) ==
    LET r == appendNode(tree, parentID, value)
    IN  /\ r.tree.nextID <= MaxID
        /\ tree' = r.tree
        /\ last' = Call("appendNode", tree, parentID, value, <<>>,
                        [err |-> r.err, ret |-> r.ret, out |-> EmptyTree, logged |-> ""])
        /\ UNCHANGED story

RemoveNode(nodeID) ==
    LET r == removeNode(tree, nodeID)
    IN  /\ tree' = r.tree
        /\ last' = Call("removeNode", tree, nodeID, DefaultT, <<>>,
                        [err |-> r.err, ret |-> r.ret, out |-> EmptyTree, logged |-> ""])
        /\ UNCHANGED story

\* Tree<T>::deserialize(tree.serialize())
RoundTrip ==
    \E r \in deserialize(serialize(tree)) :
        /\ last' = Call("roundTrip", tree, NoID, DefaultT, serialize(tree),
                        [err |-> r.err, ret |-> NoID, out |-> r.tree, logged |-> r.logged])
        /\ UNCHANGED <<tree, story>>

Next ==
    \/ \E value \in RootValues : SetRoot(value)
    \/ \E parentID \in IdArgs, value \in Values : AppendNode(parentID, value)
    \/ \E nodeID \in IdArgs : RemoveNode(nodeID)
    \/ RoundTrip

Spec == Init /\ [][Next]_vars

\* deserialize as a function of its argument: any document of the pool's
\* lines, handed over once
InitLoad ==
    /\ tree = TreeCtor.tree
    /\ last = Call("Tree", EmptyTree, NoID, DefaultT, <<>>,
                   [err |-> TreeCtor.err, ret |-> NoID, out |-> EmptyTree, logged |-> ""])
    /\ \E n \in 0..MaxLines :
           \E picks \in [1..n -> 1..Len(LinePool)] : story = DocOf(picks, 1)

Deserialize ==
    /\ last.op = "Tree"
    /\ \E r \in deserialize(story) :
           last' = Call("deserialize", tree, NoID, DefaultT, story,
                        [err |-> r.err, ret |-> NoID, out |-> r.tree, logged |-> r.logged])
    /\ UNCHANGED <<tree, story>>

NextLoad == Deserialize

SpecLoad == InitLoad /\ [][NextLoad]_vars

\* the payload of the i-th node a caller adds
Letter(i) ==
    [action |-> <<(<<"A", "B", "C", "D", "E", "F", "G", "H">>)[((i - 1) % 8) + 1]>>,
     outcome |-> <<>>]

\* the appendNode calls for the nodes i..n: node i goes under the id parents[i]
RECURSIVE Grow(_, _, _, _)
Grow(t, parents, i, n) ==
    IF i > n THEN t
    ELSE Grow(appendNode(t, parents[i], Letter(i)).tree, parents, i + 1, n)

\* the tree a caller gets from Tree(), setRoot and n - 1 appendNode calls
Build(parents, n) ==
    IF n = 0 THEN TreeCtor.tree
    ELSE Grow(setRoot(TreeCtor.tree, Letter(1)).tree, parents, 2, n)

\* linearize and serialize as functions of the tree: any tree of up to
\* MaxNodes nodes that setRoot and appendNode build
InitLinear ==
    /\ \E n \in 0..MaxNodes :
           \E parents \in [2..n -> 0..(MaxNodes - 2)] :
               /\ \A i \in 2..n : parents[i] <= i - 2
               /\ tree = Build(parents, n)
    /\ last = Call("Tree", EmptyTree, NoID, DefaultT, <<>>,
                   [err |-> TreeCtor.err, ret |-> NoID, out |-> EmptyTree, logged |-> ""])
    /\ story = <<>>

\* tree.linearize(), as serialize calls it
Linearize ==
    /\ last.op # "linearize"
    /\ last' = Call("linearize", tree, NoID, DefaultT, <<>>,
                    [err |-> "", ret |-> linearize(tree), out |-> EmptyTree, logged |-> ""])
    /\ UNCHANGED <<tree, story>>

\* tree.serialize(), as saveStoryline calls it
Serialize ==
    /\ last.op # "serialize"
    /\ last' = Call("serialize", tree, NoID, DefaultT, serialize(tree),
                    [err |-> "", ret |-> NoID, out |-> EmptyTree, logged |-> ""])
    /\ UNCHANGED <<tree, story>>

NextLinear == Linearize \/ Serialize

SpecLinear == InitLinear /\ [][NextLinear]_vars

\* the read operations as functions of the tree and the id: any tree that
\* setRoot, up to MaxID - 1 appendNode calls and then a removeNode call
\* (one that fails included) leave behind
InitRead ==
    /\ \E n \in 0..MaxID :
           \E parents \in [2..n -> 0..(MaxID - 2)] :
               \E nodeID \in IdArgs :
                   /\ \A i \in 2..n : parents[i] <= i - 2
                   /\ tree = removeNode(Build(parents, n), nodeID).tree
    /\ last = Call("Tree", EmptyTree, NoID, DefaultT, <<>>,
                   [err |-> TreeCtor.err, ret |-> NoID, out |-> EmptyTree, logged |-> ""])
    /\ story = <<>>

\* the const member functions: they return without writing to the tree
GetRootID ==
    /\ last' = Call("getRootID", tree, NoID, DefaultT, <<>>,
                    [err |-> "", ret |-> getRootID(tree), out |-> EmptyTree, logged |-> ""])
    /\ UNCHANGED <<tree, story>>

GetChildrenIDs(nodeID) ==
    LET r == getChildrenIDs(tree, nodeID)
    IN  /\ last' = Call("getChildrenIDs", tree, nodeID, DefaultT, <<>>,
                        [err |-> r.err, ret |-> r.ret, out |-> EmptyTree, logged |-> ""])
        /\ UNCHANGED <<tree, story>>

GetValue(nodeID) ==
    LET r == getValue(tree, nodeID)
    IN  /\ last' = Call("getValue", tree, nodeID, DefaultT, <<>>,
                        [err |-> r.err, ret |-> r.ret, out |-> EmptyTree, logged |-> ""])
        /\ UNCHANGED <<tree, story>>

Subscript(nodeID) ==
    LET r == subscript(tree, nodeID)
    IN  /\ last' = Call("operator[]", tree, nodeID, DefaultT, <<>>,
                        [err |-> r.err, ret |-> r.ret, out |-> EmptyTree, logged |-> ""])
        /\ UNCHANGED <<tree, story>>

NextRead ==
    \/ GetRootID
    \/ \E nodeID \in IdArgs : GetChildrenIDs(nodeID)
    \/ \E nodeID \in IdArgs : GetValue(nodeID)
    \/ \E nodeID \in IdArgs : Subscript(nodeID)

SpecRead == InitRead /\ [][NextRead]_vars

\* characters the strings of a payload are made of
Alphabet == {" ", "\"", "\n", "a", "b"}

Texts == UNION {[1..k -> Alphabet] : k \in 0..MaxText}

\* a constructor call, the payload type having testT as its T()
CtorCall(op, testT, value, r) ==
    [op |-> op, testT |-> testT, pre |-> EmptyTree, id |-> NoID, value |-> value,
     doc |-> <<>>, err |-> r.err, ret |-> NoID, out |-> r.tree, logged |-> ""]

\* the constructors as functions of the payload type: a type with the
\* operators of StoryNode and any two strings as the members of T(). No tree
\* exists yet.
InitCtor ==
    /\ tree = EmptyTree
    /\ \E action, outcome \in Texts :
           last = CtorCall("T", [action |-> action, outcome |-> outcome], DefaultT,
                           [tree |-> EmptyTree, err |-> ""])
    /\ story = <<>>

\* Tree<T> t;
Construct ==
    LET r == TreeCtorOf(last.testT)
    IN  /\ last.op = "T"
        /\ tree' = r.tree
        /\ last' = CtorCall("Tree()", last.testT, last.testT, r)
        /\ UNCHANGED story

\* Tree<T> t(value);
ConstructValue(value) ==
    LET r == TreeCtorValue(last.testT, value)
    IN  /\ last.op = "T"
        /\ tree' = r.tree
        /\ last' = CtorCall("Tree(value)", last.testT, value, r)
        /\ UNCHANGED story

NextCtor ==
    \/ Construct
    \/ \E value \in RootValues : ConstructValue(value)

SpecCtor == InitCtor /\ [][NextCtor]_vars

(***************************************************************************)
(* main: the game loop on the tree loadStoryline returns                   *)
(***************************************************************************)
\* the loop of loadStoryline: every line std::getline reads, with a '\n'
\* appended to it
RECURSIVE readLines(_)
readLines(text) ==
    IF Getline(text).fail THEN <<>>
    ELSE Getline(text).line \o <<"\n">> \o readLines(Getline(text).rest)

\* loadStoryline(filePath): file is None when the file cannot be opened,
\* else Some(its content)
loadStoryline(file) ==
    IF file = None
    THEN {[tree |-> TreeCtor.tree, err |-> TreeCtor.err, logged |-> "Unable to open file"]}
    ELSE deserialize(readLines(file[1]))

\* the first index of the loop over childrenIDs at which operator[] throws,
\* 0 if it throws at none
firstMissing(t, childrenIDs) ==
    LET missing == {i \in 1..Len(childrenIDs) : subscript(t, childrenIDs[i]).err # ""}
    IN  IF missing = {} THEN 0 ELSE Min(missing)

\* the validation of choice that moves to the child at the mirrored position
advanceReversed(currentNodeID, childrenIDs, choice) ==
    IF choice < 1 \/ choice > Len(childrenIDs)
    THEN currentNodeID
    ELSE childrenIDs[Len(childrenIDs) + 1 - choice]

\* the validation of choice and the update of currentNodeID: vector index
\* choice - 1 is position choice of the sequence
advance(currentNodeID, childrenIDs, choice) ==
    IF choice < 1 \/ choice > Len(childrenIDs)
    THEN currentNodeID
    ELSE childrenIDs[choice]

\* the values std::cin >> choice leaves in choice
MainChoices == (-1)..MaxID

\* texts that are no serialization of a tree: an end marker alone, two
\* values at the top, a value line operator>> fails on below the root, a
\* blank line
BadDocs ==
    {DocOf(picks, 1) : picks \in {<<1>>, <<2, 1, 2, 1>>, <<2, 6, 1, 1>>, <<2, 4, 1>>}}

\* what varian_wrynn.txt can be: missing, empty, the serialization of a tree
\* of up to MaxID nodes, with or without the line break at its end, or a
\* text that is no serialization
MainFiles ==
    {None}
      \cup {Some(serialize(Build(parents, n))) :
               parents \in {ps \in [2..MaxID -> 0..(MaxID - 2)] :
                               \A i \in 2..MaxID : ps[i] <= i - 2},
               n \in 0..MaxID}
      \cup {Some(SubSeq(serialize(Build(<<>>, 1)), 1, Len(serialize(Build(<<>>, 1))) - 1))}
      \cup {Some(doc) : doc \in BadDocs}

\* main between two steps: the statement it is at (pc), the Tree call it
\* made last (op, id, err), its locals, currentNodeID before the last step
\* (was) and the number of choices in range entered so far (choices)
Frame(pc, op, id, err, currentNodeID, childrenIDs, choice, choices) ==
    [pc |-> pc, op |-> op, id |-> id, err |-> err, currentNodeID |-> currentNodeID,
     childrenIDs |-> childrenIDs, choice |-> choice, was |-> last.currentNodeID,
     choices |-> choices]

InitMain ==
    /\ tree = EmptyTree
    /\ story \in MainFiles
    /\ last = [pc |-> "load", op |-> "main", id |-> NoID, err |-> "",
               currentNodeID |-> NoID, childrenIDs |-> <<>>, choice |-> 0,
               was |-> NoID, choices |-> 0]

\* Tree<StoryNode> storyTree = loadStoryline(...); currentNodeID = getRootID()
LoadStoryline ==
    /\ last.pc = "load"
    /\ \E r \in loadStoryline(story) :
           /\ tree' = r.tree
           /\ last' = Frame(IF r.err = "" THEN "show" ELSE "failed", "loadStoryline",
                            NoID, r.err,
                            IF r.err = "" THEN getRootID(r.tree) ELSE NoID, <<>>, 0, 0)
    /\ UNCHANGED story

\* std::cout << storyTree[currentNodeID].outcome
ShowOutcome ==
    /\ last.pc = "show"
    /\ last' = Frame(IF subscript(tree, last.currentNodeID).err = "" THEN "children"
                                                                     ELSE "failed",
                     "operator[]", last.currentNodeID,
                     subscript(tree, last.currentNodeID).err,
                     last.currentNodeID, <<>>, last.choice, last.choices)
    /\ UNCHANGED <<tree, story>>

\* childrenIDs = storyTree.getChildrenIDs(currentNodeID); break if empty
ChildrenOrBreak ==
    LET r == getChildrenIDs(tree, last.currentNodeID)
    IN  /\ last.pc = "children"
        /\ last' = Frame(IF r.err # "" THEN "failed"
                         ELSE IF r.ret = <<>> THEN "done" ELSE "list",
                         "getChildrenIDs", last.currentNodeID, r.err,
                         last.currentNodeID, r.ret, last.choice, last.choices)
        /\ UNCHANGED <<tree, story>>

\* the loop that prints storyTree[childrenIDs[i]].action
ListActions ==
    LET stop == firstMissing(tree, last.childrenIDs)
    IN  /\ last.pc = "list"
        /\ last' = Frame(IF stop = 0 THEN "choose" ELSE "failed", "operator[]",
                         last.childrenIDs[IF stop = 0 THEN Len(last.childrenIDs) ELSE stop],
                         IF stop = 0 THEN "" ELSE "NodeNotFound",
                         last.currentNodeID, last.childrenIDs, last.choice, last.choices)
        /\ UNCHANGED <<tree, story>>

\* std::cin >> choice; the validation; currentNodeID = childrenIDs[choice - 1]
Choose(choice) ==
    /\ last.pc = "choose"
    /\ last' = Frame("show", "choose", NoID, "",
                     advance(last.currentNodeID, last.childrenIDs, choice),
                     last.childrenIDs, choice,
                     IF choice < 1 \/ choice > Len(last.childrenIDs)
                     THEN last.choices ELSE last.choices + 1)
    /\ UNCHANGED <<tree, story>>

\* one statement of the while (true) loop
LoopStep ==
    \/ ShowOutcome
    \/ ChildrenOrBreak
    \/ ListActions
    \/ \E choice \in MainChoices : Choose(choice)

NextMain == LoadStoryline \/ LoopStep

SpecMain == InitMain /\ [][NextMain]_vars

\* the loop runs on: main is one thread, so a statement of the loop that can
\* be executed is executed, and std::cin >> choice returns
SpecMainFair == SpecMain /\ WF_vars(LoopStep)

(***************************************************************************)
(* Properties                                                              *)
(***************************************************************************)
\* the nodes reachable from the root through children
Reachable(t) == IF t.root = Null THEN {} ELSE Owned(t, t.root)

\* the ids of the subtree rooted at the node with this id
SubtreeIDs(t, id) == {t.nodes[h].ID : h \in Owned(t, t.nodeMap[id])}

Elems(seq) == {seq[i] : i \in 1..Len(seq)}

\* the shape of a tree: per node its value and the shapes of its children in order
RECURSIVE Shape(_, _)
RECURSIVE ShapeEach(_, _, _)
Shape(t, h) == <<t.nodes[h].value, ShapeEach(t, t.nodes[h].children, 1)>>

ShapeEach(t, kids, i) ==
    IF i > Len(kids) THEN <<>> ELSE <<Shape(t, kids[i])>> \o ShapeEach(t, kids, i + 1)

TreeShape(t) == IF t.root = Null THEN <<>> ELSE <<Shape(t, t.root)>>

Removed == last.op = "removeNode" /\ last.err = ""

\* C1: in every state reached by setRoot, appendNode and removeNode calls,
\* failed ones included, nodeMap has exactly one entry per node reachable from
\* the root: every key maps to the reachable node that carries it as ID, every
\* reachable node is found under its ID, and there are as many entries as nodes.
C1_IndexExact ==
    LET live == Reachable(tree)
    IN  /\ \A id \in DOMAIN tree.nodeMap :
               tree.nodeMap[id] \in live /\ tree.nodes[tree.nodeMap[id]].ID = id
        /\ \A h \in live :
               tree.nodes[h].ID \in DOMAIN tree.nodeMap /\ tree.nodeMap[tree.nodes[h].ID] = h
        /\ Cardinality(DOMAIN tree.nodeMap) = Cardinality(live)

\* a removal that took a node with a child away and left the root with children
C1_Witness ==
    /\ Removed
    /\ Cardinality(SubtreeIDs(last.pre, last.id)) >= 2
    /\ Cardinality(DOMAIN tree.nodeMap) >= 2

\* C2: deserialize(serialize(T)) returns a tree of the same shape as T: the
\* same values at the same places, the same number and order of children.
C2_RoundTrip ==
    last.op = "roundTrip" => last.err = "" /\ TreeShape(last.out) = TreeShape(tree)

\* C3: after a successful removeNode(x) no id of the subtree that was rooted
\* at x is in the index, getValue and getChildrenIDs fail on each of them, and
\* the children of the former parent of x do not contain x.
C3_RemovalComplete ==
    Removed =>
        LET before == last.pre
            x == last.id
            parentID == before.nodes[before.nodes[before.nodeMap[x]].parent].ID
        IN  /\ \A id \in SubtreeIDs(before, x) :
                   /\ id \notin DOMAIN tree.nodeMap
                   /\ getValue(tree, id).err = "NodeNotFound"
                   /\ getChildrenIDs(tree, id).err = "NodeNotFound"
            /\ getChildrenIDs(tree, parentID).err = ""
            /\ x \notin Elems(getChildrenIDs(tree, parentID).ret)

\* a removal of a node that had a grandchild
C3_Witness ==
    /\ Removed
    /\ \E h \in Owned(last.pre, last.pre.nodeMap[last.id]) :
           /\ last.pre.nodes[h].parent # last.pre.nodeMap[last.id]
           /\ h # last.pre.nodeMap[last.id]

Kids(t, id) == getChildrenIDs(t, id).ret

Without(seq, x) == SelectSeq(seq, LAMBDA e : e # x)

IsIncreasing(seq) == \A i, j \in 1..Len(seq) : i < j => seq[i] < seq[j]

\* C4: getChildrenIDs(p) lists the children of p in the order they were
\* appended. Ids are issued in call order, so every list is increasing; a
\* successful appendNode puts the new id at the end of the parent's list and
\* leaves the other lists alone; a successful removeNode(x) takes x out of its
\* parent's list and leaves the order of the rest, and the node and value
\* behind every id outside the removed subtree, as they were. Every id of
\* the index names a node that is still allocated.
C4_OrderPreserved ==
    /\ \A p \in DOMAIN tree.nodeMap : tree.nodeMap[p] \in DOMAIN tree.nodes
    /\ \A p \in DOMAIN tree.nodeMap : IsIncreasing(Kids(tree, p))
    /\ (last.op = "appendNode" /\ last.err = "") =>
           /\ Kids(tree, last.id) = Append(Kids(last.pre, last.id), last.ret)
           /\ \A p \in DOMAIN last.pre.nodeMap \ {last.id} :
                  Kids(tree, p) = Kids(last.pre, p)
    /\ Removed =>
           /\ DOMAIN tree.nodeMap = DOMAIN last.pre.nodeMap \ SubtreeIDs(last.pre, last.id)
           /\ \A p \in DOMAIN tree.nodeMap :
                  /\ Kids(tree, p) = Without(Kids(last.pre, p), last.id)
                  /\ tree.nodeMap[p] = last.pre.nodeMap[p]
                  /\ getValue(tree, p).ret = getValue(last.pre, p).ret

\* a removal of a middle child that has an earlier sibling of equal value
C4_Witness ==
    /\ Removed
    /\ LET before == last.pre
           x == last.id
           kids == Kids(before, before.nodes[before.nodes[before.nodeMap[x]].parent].ID)
       IN  \E i, j, k \in 1..Len(kids) :
               /\ i < j /\ j < k /\ kids[j] = x
               /\ getValue(before, kids[i]).ret = getValue(before, x).ret

\* the lines std::getline cuts a text into
RECURSIVE LinesOf(_)
LinesOf(text) ==
    IF text = <<>> THEN <<>>
    ELSE <<Getline(text).line>> \o LinesOf(Getline(text).rest)

\* a value line whose payload operator>> reads without failing
IsGoodValueLine(line) ==
    /\ line # EndMarker
    /\ IsValueLine(line)
    /\ LET value == Extract(Substr(line, Find(line, <<"]", ":", " ">>, 0) + 3, Npos).str)
       IN  ~value.thrown /\ ~value.fail

Markers(lines, n) == Cardinality({i \in 1..n : lines[i] = EndMarker})

ValueLines(lines, n) == Cardinality({i \in 1..n : IsGoodValueLine(lines[i])})

\* more end markers than value lines in some prefix, or not as many in all
Unbalanced(lines) ==
    \/ \E n \in 1..Len(lines) : Markers(lines, n) > ValueLines(lines, n)
    \/ Markers(lines, Len(lines)) # ValueLines(lines, Len(lines))

Loaded == last.op = "deserialize"

\* C5: deserialize of a document of end markers and value lines whose end
\* markers outnumber the value lines in some prefix, or whose totals differ,
\* fails with UnbalancedMarkers at its caller.
C5_UnbalancedReported ==
    (/\ Loaded
     /\ \A i \in 1..Len(LinesOf(story)) :
            LinesOf(story)[i] = EndMarker \/ IsGoodValueLine(LinesOf(story)[i])
     /\ Unbalanced(LinesOf(story)))
        => last.err = "UnbalancedMarkers"

\* C6: when deserialize detects a parse error and hands a tree back, the tree
\* is empty.
C6_ErrorGivesEmptyTree ==
    (Loaded /\ last.logged # "" /\ last.err = "") => last.out = EmptyTree

\* C7: removeNode of the id of the root fails with CannotRemoveRoot and leaves
\* the tree (root, index, children, nextID) as it was.
C7_RootNotRemovable ==
    (last.op = "removeNode" /\ last.pre.root # Null /\ last.id = getRootID(last.pre))
        => last.err = "CannotRemoveRoot" /\ tree = last.pre

\* a removeNode of the id of a root that has children
C7_Witness ==
    /\ last.op = "removeNode"
    /\ last.pre.root # Null
    /\ last.id = last.pre.nodes[last.pre.root].ID
    /\ last.pre.nodes[last.pre.root].children # <<>>

\* C8: removeNode of an id that is not in the index fails with NodeNotFound,
\* whatever the id and whether or not the tree has a root, and leaves the
\* tree as it was.
C8_AbsentIsNotFound ==
    (last.op = "removeNode" /\ last.id \notin DOMAIN last.pre.nodeMap)
        => last.err = "NodeNotFound" /\ tree = last.pre

\* C9: appendNode under a parent id that is not in the index fails with
\* NodeNotFound and leaves the tree as it was: no node, no entry, nextID kept.
C9_AppendAbsentParent ==
    (last.op = "appendNode" /\ last.id \notin DOMAIN last.pre.nodeMap)
        => last.err = "NodeNotFound" /\ tree = last.pre

\* an appendNode under the id of a node that was removed before
C9_Witness ==
    /\ last.op = "appendNode"
    /\ last.err = "NodeNotFound"
    /\ last.id \in 0..(last.pre.nextID - 1)
    /\ tree.root # Null

\* C10: setRoot on a tree with a root fails with AlreadyHasRoot and leaves the
\* tree as it was; on a tree without a root it installs a childless, parentless
\* node of the value given under an id that is not in use, registers it in the
\* index and returns that id.
C10_SetRoot ==
    last.op = "setRoot" =>
        IF last.pre.root # Null
        THEN last.err = "AlreadyHasRoot" /\ tree = last.pre
        ELSE /\ last.err = ""
             /\ tree.root # Null
             /\ last.ret = last.pre.nextID
             /\ last.ret \notin DOMAIN last.pre.nodeMap
             /\ DOMAIN tree.nodeMap = DOMAIN last.pre.nodeMap \cup {last.ret}
             /\ tree.nodeMap[last.ret] = tree.root
             /\ getRootID(tree) = last.ret
             /\ tree.nodes[tree.root] =
                    [value |-> last.value, parent |-> Null, children |-> <<>>,
                     ID |-> last.ret]

\* a setRoot refused on a tree whose root has children
C10_Witness ==
    /\ last.op = "setRoot"
    /\ last.err = "AlreadyHasRoot"
    /\ tree.nodes[tree.root].children # <<>>
    /\ tree.nodes[tree.root].value # last.value

\* a call of setRoot or appendNode that returned an id
Issued == last.op \in {"setRoot", "appendNode"} /\ last.err = ""

\* C11: nextID never decreases; an id returned by setRoot or appendNode is
\* the value nextID had before the call, which lies above every id issued
\* before (the ids of removed nodes included: all of them are below nextID);
\* and a node that lives through a call keeps its id.
C11_IdsNeverReused ==
    /\ tree.nextID >= last.pre.nextID
    /\ \A id \in DOMAIN tree.nodeMap : id >= 0 /\ id < tree.nextID
    /\ Issued =>
           /\ last.ret = last.pre.nextID
           /\ tree.nextID = last.pre.nextID + 1
           /\ \A id \in DOMAIN last.pre.nodeMap : id < last.ret
    /\ last.op \in {"setRoot", "appendNode", "removeNode"} =>
           \A h \in DOMAIN last.pre.nodes \cap DOMAIN tree.nodes :
               tree.nodes[h].ID = last.pre.nodes[h].ID

\* an id issued by a tree that had removed nodes before: ids below nextID
\* are free
C11_Witness ==
    /\ Issued
    /\ last.op = "appendNode"
    /\ Cardinality(DOMAIN last.pre.nodeMap) < last.pre.nextID

\* the recursive definition of the linearization: the value of the node, the
\* linearizations of its children in order, an end marker
RECURSIVE Lin(_, _)
RECURSIVE LinEach(_, _, _)
Lin(t, h) == <<Some(t.nodes[h].value)>> \o LinEach(t, t.nodes[h].children, 1) \o <<None>>

LinEach(t, kids, i) ==
    IF i > Len(kids) THEN <<>> ELSE Lin(t, kids[i]) \o LinEach(t, kids, i + 1)

\* root A with the children B, C, D, and B with the children E, F
ExampleTree == Build(2 :> 0 @@ 3 :> 0 @@ 4 :> 0 @@ 5 :> 1 @@ 6 :> 1, 6)

\* what the example linearizes to, a letter for a value and X for a marker
ExampleLetters == <<"A", "B", "E", "X", "F", "X", "X", "C", "X", "D", "X", "X">>

LettersOf(linearized) ==
    [i \in 1..Len(linearized) |->
        IF linearized[i] = None THEN "X" ELSE linearized[i][1].action[1]]

\* C12: linearize gives the recursive pre-order linearization of the root
\* (children in the order they were appended), the empty sequence for a tree
\* without a root, and A,B,E,X,F,X,X,C,X,D,X,X for the example tree.
C12_LinearizeIsPreorder ==
    last.op = "linearize" =>
        /\ last.ret = IF tree.root = Null THEN <<>> ELSE Lin(tree, tree.root)
        /\ tree = ExampleTree => LettersOf(last.ret) = ExampleLetters

\* linearize was called on the example tree
C12_Witness == last.op = "linearize" /\ tree = ExampleTree /\ Len(last.ret) = 12

\* the nodes below h in pre-order, h first
RECURSIVE PreOrder(_, _)
RECURSIVE PreOrderEach(_, _, _)
PreOrder(t, h) == <<h>> \o PreOrderEach(t, t.nodes[h].children, 1)

PreOrderEach(t, kids, i) ==
    IF i > Len(kids) THEN <<>> ELSE PreOrder(t, kids[i]) \o PreOrderEach(t, kids, i + 1)

NodesInOrder(t) == IF t.root = Null THEN <<>> ELSE PreOrder(t, t.root)

\* values and markers among the entries from..to of a linearized sequence
ValuesIn(linearized, from, to) == Cardinality({i \in from..to : linearized[i] # None})

MarkersIn(linearized, from, to) == Cardinality({i \in from..to : linearized[i] = None})

\* the position of the k-th value entry, and of the entry that closes the
\* value entry at position i: the first marker after as many markers as values
ValuePos(linearized, k) ==
    Min({i \in 1..Len(linearized) :
            linearized[i] # None /\ ValuesIn(linearized, 1, i) = k})

MarkerPos(linearized, i) ==
    Min({j \in i..Len(linearized) :
            ValuesIn(linearized, i, j) = MarkersIn(linearized, i, j)} \cup {Len(linearized) + 1})

\* the k-th node in pre-order has the k-th value entry, and its marker is the
\* entry that closes it
ValueOf(t, linearized, h) ==
    ValuePos(linearized, Min({k \in 1..Len(NodesInOrder(t)) : NodesInOrder(t)[k] = h}))

MarkerOf(t, linearized, h) == MarkerPos(linearized, ValueOf(t, linearized, h))

\* C13: the linearization of a tree of N nodes has N value entries and N
\* markers; each node has its value at its entry and a marker of its own,
\* which comes after the markers of all nodes below it and before the value
\* and the marker of each of its later siblings; every proper non-empty
\* prefix holds fewer markers than values.
C13_MarkersNested ==
    last.op = "linearize" =>
        LET lin == last.ret
            live == Reachable(tree)
        IN  /\ ValuesIn(lin, 1, Len(lin)) = Cardinality(live)
            /\ MarkersIn(lin, 1, Len(lin)) = Cardinality(live)
            /\ \A h \in live :
                   /\ lin[ValueOf(tree, lin, h)] = Some(tree.nodes[h].value)
                   /\ MarkerOf(tree, lin, h) <= Len(lin)
                   /\ \A d \in Owned(tree, h) \ {h} :
                          MarkerOf(tree, lin, d) < MarkerOf(tree, lin, h)
                   /\ \A g \in live \ {h} : MarkerOf(tree, lin, g) # MarkerOf(tree, lin, h)
            /\ \A p \in live :
                   \A i, j \in 1..Len(tree.nodes[p].children) :
                       i < j =>
                           /\ MarkerOf(tree, lin, tree.nodes[p].children[i])
                                  < ValueOf(tree, lin, tree.nodes[p].children[j])
                           /\ MarkerOf(tree, lin, tree.nodes[p].children[i])
                                  < MarkerOf(tree, lin, tree.nodes[p].children[j])
            /\ \A n \in 1..(Len(lin) - 1) : MarkersIn(lin, 1, n) < ValuesIn(lin, 1, n)

\* linearize of a tree in which a node with a grandchild has a later sibling
C13_Witness ==
    /\ last.op = "linearize"
    /\ \E p \in Reachable(tree) :
           \E i, j \in 1..Len(tree.nodes[p].children) :
               /\ i < j
               /\ \E d \in Owned(tree, tree.nodes[p].children[i]) :
                      /\ d # tree.nodes[p].children[i]
                      /\ tree.nodes[d].parent # tree.nodes[p].children[i]

\* the lines of a text that have the shape of a value line, in order
ValueLinesOf(text) == SelectSeq(LinesOf(text), IsValueLine)

\* the text a value line of index k starts with
IndexPrefix(k) == <<"[">> \o Decimal(k) \o <<"]", ":", " ">>

\* C14: the tree deserialize rebuilds from the serialization of a tree of N
\* nodes has the ids 0..N-1 in pre-order and nextID = N: the node built from
\* the k-th value line (from 0) has the id k, the index printed on that line.
C14_RebuiltIdsDense ==
    last.op = "roundTrip" =>
        LET N == Cardinality(Reachable(tree))
            out == last.out
            order == NodesInOrder(out)
            lines == ValueLinesOf(last.doc)
        IN  /\ last.err = ""
            /\ Len(order) = N
            /\ out.nextID = N
            /\ DOMAIN out.nodeMap = 0..(N - 1)
            /\ Len(lines) = N
            /\ \A k \in 0..(N - 1) :
                   /\ out.nodes[order[k + 1]].ID = k
                   /\ out.nodeMap[k] = order[k + 1]
                   /\ SubSeq(lines[k + 1], 1, Len(IndexPrefix(k))) = IndexPrefix(k)

\* the places (p, i) at which h stands in a children sequence
PlacesOf(t, h) ==
    {pi \in (DOMAIN t.nodes) \X (1..Cardinality(DOMAIN t.nodes)) :
        /\ pi[2] <= Len(t.nodes[pi[1]].children)
        /\ t.nodes[pi[1]].children[pi[2]] = h}

\* the nodes of t form a tree under its root
IsTree(t) ==
    /\ t.root = Null => DOMAIN t.nodes = {}
    /\ t.root # Null => t.root \in DOMAIN t.nodes /\ t.nodes[t.root].parent = Null
    /\ \A h \in DOMAIN t.nodes :
           /\ \A i \in 1..Len(t.nodes[h].children) : t.nodes[h].children[i] \in DOMAIN t.nodes
           /\ h = t.root => PlacesOf(t, h) = {}
           /\ h # t.root =>
                  /\ Cardinality(PlacesOf(t, h)) = 1
                  /\ \A pi \in PlacesOf(t, h) : t.nodes[h].parent = pi[1]
    /\ DOMAIN t.nodes = Reachable(t)

\* C15: in every state the nodes form a tree: the root has no parent, every
\* other node stands at exactly one place of exactly one children sequence,
\* its parent pointer names the node that holds that sequence, and every
\* node is reachable from the root. The same holds of a tree deserialize
\* rebuilt from a serialization.
C15_IsTree ==
    /\ IsTree(tree)
    /\ last.op = "roundTrip" => IsTree(last.out)

\* a tree of three levels that a removal left behind
C15_Witness ==
    /\ Removed
    /\ \E h \in DOMAIN tree.nodes :
           /\ tree.nodes[h].parent # Null
           /\ tree.nodes[tree.nodes[h].parent].parent # Null

Appended == last.op = "appendNode" /\ last.err = ""

\* C16: a successful appendNode(p, v) returns the value nextID had before
\* the call; the new node is the last child of p, holds v, has no children
\* and p as parent; p has one child more; every node that existed before
\* keeps its id, value, parent and the order of its children.
C16_AppendEffect ==
    Appended =>
        LET before == last.pre
            p == before.nodeMap[last.id]
            new == tree.nodeMap[last.ret]
        IN  /\ last.ret = before.nextID
            /\ new \notin DOMAIN before.nodes
            /\ DOMAIN tree.nodes = DOMAIN before.nodes \cup {new}
            /\ tree.nodes[new] =
                   [value |-> last.value, parent |-> p, children |-> <<>>, ID |-> last.ret]
            /\ tree.nodes[p].children = Append(before.nodes[p].children, new)
            /\ Len(Kids(tree, last.id)) = Len(Kids(before, last.id)) + 1
            /\ Kids(tree, last.id)[Len(Kids(tree, last.id))] = last.ret
            /\ getValue(tree, last.ret).ret = last.value
            /\ \A h \in DOMAIN before.nodes :
                   /\ tree.nodes[h].ID = before.nodes[h].ID
                   /\ tree.nodes[h].value = before.nodes[h].value
                   /\ tree.nodes[h].parent = before.nodes[h].parent
                   /\ h # p => tree.nodes[h].children = before.nodes[h].children
            /\ \A id \in DOMAIN before.nodeMap : tree.nodeMap[id] = before.nodeMap[id]
            /\ tree.root = before.root

\* an append under a node that is not the root and had a child already
C16_Witness ==
    /\ Appended
    /\ last.id # getRootID(last.pre)
    /\ Kids(last.pre, last.id) # <<>>

\* a call of one of the read operations that take an id
ReadByID == last.op \in {"getValue", "operator[]", "getChildrenIDs"}

\* C17: getValue, operator[] and getChildrenIDs succeed when the id is in
\* the index and fail with NodeNotFound when it is not; on success they give
\* the value of the node, respectively the ids of its children in order
\* (none for a leaf); getRootID gives -1 when the tree has no root and the
\* id of the root when it has one; the tree is as it was before the call.
C17_ReadsTotalOnLiveIds ==
    /\ ReadByID =>
           /\ last.err = (IF last.id \in DOMAIN last.pre.nodeMap THEN "" ELSE "NodeNotFound")
           /\ tree = last.pre
    /\ (ReadByID /\ last.err = "" /\ last.op # "getChildrenIDs") =>
           last.ret = tree.nodes[tree.nodeMap[last.id]].value
    /\ (ReadByID /\ last.err = "" /\ last.op = "getChildrenIDs") =>
           LET children == tree.nodes[tree.nodeMap[last.id]].children
           IN  /\ Len(last.ret) = Len(children)
               /\ \A i \in 1..Len(children) : last.ret[i] = tree.nodes[children[i]].ID
               /\ children = <<>> => last.ret = <<>>
    /\ last.op = "getRootID" =>
           /\ (last.ret = NoRootID) <=> (tree.root = Null)
           /\ tree.root # Null => last.ret = tree.nodes[tree.root].ID /\ last.ret >= 0
           /\ tree = last.pre

\* getChildrenIDs of a leaf of a tree that holds a removed id
C17_Witness ==
    /\ last.op = "getChildrenIDs"
    /\ last.err = ""
    /\ last.ret = <<>>
    /\ Cardinality(DOMAIN tree.nodeMap) < tree.nextID
    /\ last.id # getRootID(tree)

\* the positions at which "]: " starts in a line
Cuts(line) ==
    {k \in 1..(Len(line) - 2) : SubSeq(line, k, k + 2) = <<"]", ":", " ">>}

\* the three kinds of line: exactly [X]; an opening bracket first and "]: "
\* somewhere behind it; anything else
KindOf(line) ==
    IF line = EndMarker THEN "end"
    ELSE IF line # <<>> /\ line[1] = "[" /\ Cuts(line) # {} THEN "value"
    ELSE "malformed"

\* the payload of a value line: the text behind the first "]: "
PayloadOf(line) == SubSeq(line, Min(Cuts(line)) + 3, Len(line))

\* a value line whose payload operator>> decodes
Decodes(line) ==
    KindOf(line) = "value" /\ ~Extract(PayloadOf(line)).thrown
                           /\ ~Extract(PayloadOf(line)).fail

\* no line before the i-th stops deserialize: each is an end marker or a
\* value line that decodes, and no prefix has more end markers than values
CleanBefore(lines, i) ==
    \A j \in 1..(i - 1) :
        /\ lines[j] = EndMarker \/ Decodes(lines[j])
        /\ Cardinality({n \in 1..j : lines[n] = EndMarker})
               <= Cardinality({n \in 1..j : Decodes(lines[n])})

\* the values of the nodes in pre-order
ValuesInOrder(t) == [k \in 1..Len(NodesInOrder(t)) |-> t.nodes[NodesInOrder(t)[k]].value]

RECURSIVE TextOf(_, _, _)
TextOf(linearized, i, k) ==
    IF i > Len(linearized) THEN <<>>
    ELSE IF linearized[i] # None
    THEN IndexPrefix(k) \o Encode(linearized[i][1]) \o <<"\n">>
             \o TextOf(linearized, i + 1, k + 1)
    ELSE EndMarker \o <<"\n">> \o TextOf(linearized, i + 1, k)

Serialized == last.op \in {"serialize", "roundTrip"}

\* C19: serialize writes the entries of the linearization in order, the k-th
\* value entry (from 0) as "[k]: " and its value text, a marker as "[X]", one
\* line each: the text of a tree of N nodes has 2N lines, the i-th line being
\* the i-th entry.
C19_OneLinePerEntry ==
    Serialized =>
        LET lin == linearize(tree)
            lines == LinesOf(last.doc)
        IN  /\ last.doc = TextOf(lin, 1, 0)
            /\ Len(lines) = 2 * Cardinality(Reachable(tree))
            /\ Len(lines) = Len(lin)
            /\ \A i \in 1..Len(lin) :
                   lines[i] = IF lin[i] = None THEN EndMarker
                              ELSE IndexPrefix(ValuesIn(lin, 1, i) - 1) \o Encode(lin[i][1])

Constructed == last.op \in {"Tree()", "Tree(value)"}

\* decode(encode(T())) = T() for the payload type
RoundTrips(testT) == Extract(Encode(testT)).value = testT

\* C20: a constructor runs the check of the payload type first. When the
\* value T() does not come back from decode(encode(T())), the construction
\* fails with IncompatiblePayloadType and there is no tree and no root. When
\* it comes back, the construction succeeds: Tree() gives a tree with no root
\* and an empty index, Tree(value) one whose root holds the value. The T() of
\* StoryNode comes back; one whose text holds a double quote does not.
C20_CtorChecksPayload ==
    /\ RoundTrips(DefaultT)
    /\ Constructed =>
           /\ ~RoundTrips(last.testT) =>
                  /\ last.err = "IncompatiblePayloadType"
                  /\ tree = EmptyTree /\ tree.root = Null
           /\ RoundTrips(last.testT) =>
                  /\ last.err = ""
                  /\ last.op = "Tree()" =>
                         /\ tree.root = Null
                         /\ tree.nodeMap = NoEntries /\ tree.nodes = NoEntries
                         /\ tree.nextID = 0
                  /\ last.op = "Tree(value)" =>
                         /\ tree.root # Null
                         /\ tree.nodes[tree.root].value = last.value
                         /\ DOMAIN tree.nodeMap = {0}
           /\ (\E i \in 1..Len(last.testT.action) : last.testT.action[i] = "\"")
                  => last.err = "IncompatiblePayloadType"
           /\ last.testT = DefaultT => last.err = ""

\* Tree(value) refused for a payload type whose T() holds a double quote
C20_Witness ==
    /\ last.op = "Tree(value)"
    /\ last.err = "IncompatiblePayloadType"
    /\ last.testT.action = <<"\"">>
    /\ last.value # DefaultT

\* a document deserialize reads to its end without an error
Accepted == Loaded /\ last.logged = ""

\* C21: for a document that deserialize accepts without an error, delinearize
\* finds a parent id on its stack for every value after the first, so it
\* returns a tree, and the tree has as many nodes as the document has value
\* lines, also when a value line follows the end marker that closed the root.
C21_AcceptedIsBuilt ==
    Accepted =>
        /\ last.err = ""
        /\ Cardinality(DOMAIN last.out.nodes) = Len(SelectSeq(LinesOf(story), Decodes))
        /\ Cardinality(DOMAIN last.out.nodeMap) = Len(SelectSeq(LinesOf(story), Decodes))

\* the root of t, if t has one, is the node the index knows as 0
RootIsZero(t) ==
    t.root # Null =>
        /\ t.root \in DOMAIN t.nodes
        /\ t.nodes[t.root].ID = 0
        /\ 0 \in DOMAIN t.nodeMap
        /\ t.nodeMap[0] = t.root
        /\ getRootID(t) = 0

\* the value getRootID returns for "no root" is the id of no node of t
NoRootIDFree(t) ==
    /\ (getRootID(t) = NoRootID) = (t.root = Null)
    /\ NoRootID \notin DOMAIN t.nodeMap
    /\ \A h \in DOMAIN t.nodes : t.nodes[h].ID # NoRootID

\* C22: in every tree reached from an empty one by setRoot, appendNode and
\* removeNode, and in every tree deserialize returns, a root that exists has
\* id 0; once set, the same node with the same value stays the root over
\* every later operation; and -1, getRootID's "no root", is no node's id.
C22_RootIsZeroAndStays ==
    /\ RootIsZero(tree) /\ NoRootIDFree(tree)
    /\ (last.op = "roundTrip" /\ last.err = "") =>
           RootIsZero(last.out) /\ NoRootIDFree(last.out)
    /\ last.pre.root # Null =>
           /\ tree.root = last.pre.root
           /\ tree.nodes[tree.root].value = last.pre.nodes[last.pre.root].value
           /\ getRootID(tree) = getRootID(last.pre)

\* the root has survived an appendNode, a removeNode of a child and then an
\* operation aimed at the root itself
C22_Witness ==
    /\ last.op \in {"setRoot", "removeNode"}
    /\ last.op = "removeNode" => last.id = 0
    /\ last.pre.root # Null
    /\ last.pre.nextID > Cardinality(DOMAIN last.pre.nodes)
    /\ Cardinality(DOMAIN tree.nodes) > 1

\* main has called operator[] or getChildrenIDs inside the loop
LoopCall == last.pc # "load" /\ last.op \in {"operator[]", "getChildrenIDs"}

\* C23: in main's loop every id passed to operator[] and getChildrenIDs is in
\* the index of storyTree, whatever tree loadStoryline returned, the empty
\* tree of a file that cannot be opened or of a rejected document included:
\* no call in the loop fails with NodeNotFound.
C23_LoopIdsInIndex ==
    LoopCall => last.id \in DOMAIN tree.nodeMap /\ last.err = ""

\* the number of edges between the root of t and the node at h
RECURSIVE Level(_, _)
Level(t, h) == IF t.nodes[h].parent = Null THEN 0 ELSE 1 + Level(t, t.nodes[h].parent)

\* the height of t in edges
Height(t) ==
    IF t.root = Null THEN 0
    ELSE CHOOSE n \in 0..Cardinality(DOMAIN t.nodes) :
             /\ \A h \in DOMAIN t.nodes : Level(t, h) <= n
             /\ \E h \in DOMAIN t.nodes : Level(t, h) = n

\* main has just read a choice, validated it and gone back to the loop head
Chose == last.op = "choose"

InRange == last.choice \in 1..Len(last.childrenIDs)

\* the loop has ended: by its break, or by an exception nothing catches
Halted == last.pc \in {"done", "failed"}

\* after a choice: out of range, the current node is the one it was; in
\* range, it is the choice-th child of the one it was. The choices in range
\* entered so far are as many as edges lead from the root to the current
\* node, so never more than the height. The break is taken at a leaf only.
ChoiceMoves ==
    /\ (Chose /\ ~InRange) =>
           last.currentNodeID = last.was /\ last.choices = Level(tree, tree.nodeMap[last.was])
    /\ (Chose /\ InRange) =>
           /\ last.was \in DOMAIN tree.nodeMap
           /\ last.choice <= Len(tree.nodes[tree.nodeMap[last.was]].children)
           /\ last.currentNodeID =
                  tree.nodes[tree.nodes[tree.nodeMap[last.was]].children[last.choice]].ID
    /\ last.choices <= Height(tree)
    /\ (last.pc \in {"show", "children", "list", "choose", "done"} /\ tree.root # Null) =>
           /\ last.currentNodeID \in DOMAIN tree.nodeMap
           /\ Level(tree, tree.nodeMap[last.currentNodeID]) = last.choices
    /\ last.pc = "done" =>
           /\ last.currentNodeID \in DOMAIN tree.nodeMap
           /\ tree.nodes[tree.nodeMap[last.currentNodeID]].children = <<>>

====
